---- MODULE Spec2Model ----
(***************************************************************************)
(* Model of the System Health MCP server: the get_health_alerts primary    *)
(* entrypoint (src/health_check/src/system/alerts.js), its 3 s cache, its  *)
(* quick collectors, and the call_tool request handler of the server       *)
(* (src/unnamed/part_002, lines 693-746).                                  *)
(*                                                                         *)
(* Conventions                                                             *)
(*  - Date.now() and new Date().toISOString() are both readings of the     *)
(*    wall clock `clock` (milliseconds); the ISO string is an injective    *)
(*    rendering of the millisecond count, so it is kept as the number.     *)
(*  - a JavaScript value that is "null or an object" is a sequence of      *)
(*    length 0 or 1.                                                       *)
(*  - the string "N/A" and the number NaN are the integers NA and NaN,     *)
(*    which are outside the range of every real reading; the comparison    *)
(*    operators Lt and Gt below give JavaScript's answer for them (false). *)
(*  - a message built from a template literal is the record of its fixed   *)
(*    text and of the value interpolated into it.                          *)
(***************************************************************************)
EXTENDS Integers, Sequences, FiniteSets, Bags, TLC

VARIABLES
    clock,          \* wall clock in ms (Date.now())
    env,            \* what the machine would answer to a collector right now
    alertCache,     \* alerts.js:8   <<>> (null) or <<Report>>
    cacheTimestamp, \* alerts.js:9
    calls,          \* bag of the requests whose handler is suspended at an await
    returned,       \* <<>> or <<the outcome of the handler that ended last>>
    scoreIn,        \* argument of a direct calculateHealthScore call
    scoreOut,       \* <<>> or <<its return value>>
    thermalCache,          \* thermal.js:7   <<>> (null) or <<result>>
    thermalCacheTimestamp, \* thermal.js:8   cacheTimestamp of the thermal module
    thermalCalls,          \* bag of the getThermalStatus calls suspended at line 99
    thermalReturned,       \* <<>> or <<what the last getThermalStatus call returned>>
    connectivityCache,     \* part_002:759  <<>> (null) or <<result>>
    connectivityTimestamp, \* part_002:760
    connectivityCachedAt,  \* history: the clock when connectivityCache was last written
    networkCalls,          \* bag of the getNetworkStatus calls suspended at line 920
    networkReturned,       \* <<>> or <<what the last getNetworkStatus call returned>>
    perfCall,              \* <<>> or <<the getPerformanceStats call suspended at line 110>>
    perfReturned,          \* <<>> or <<what the last getPerformanceStats call returned>>
    batteryReturned,       \* <<>> or <<what the commands of the last getBatteryStatus
                           \*           call did, and what the call returned>>
    systemHealthReturned   \* <<>> or <<the same for the last getSystemHealth call>>

thermalVars == <<thermalCache, thermalCacheTimestamp, thermalCalls, thermalReturned>>
networkVars == <<connectivityCache, connectivityTimestamp, connectivityCachedAt,
                 networkCalls, networkReturned>>
perfVars == <<perfCall, perfReturned>>
reportVars == <<batteryReturned, systemHealthReturned>>
deepVars == <<thermalVars, networkVars, perfVars, reportVars>>

vars == <<clock, env, alertCache, cacheTimestamp, calls, returned,
          scoreIn, scoreOut, deepVars>>

----------------------------------------------------------------------------
(* Bounds of the model *)

MaxCalls == 2          \* requests that may be open at the same time
MaxClock == 3000       \* the clock stops advancing here

TickMs == 1500         \* granularity of the clock

----------------------------------------------------------------------------
(* Program constants *)

CACHE_TTL == 3000
CriticalPenalty == 15
WarningPenalty == 5
MaxNextSteps == 2

NA == -1      \* the string "N/A"
NaN == -2     \* the number NaN

IsNumber(x) == x >= 0

\* JavaScript's x < n and x > n for x a number, NaN or the string "N/A"
\* ("N/A" converts to NaN, and every comparison with NaN is false).
Lt(x, n) == IsNumber(x) /\ x < n

\* x >= n in place of x > n
Gt_inclusive(x, n) == IsNumber(x) /\ x >= n

Gt(x, n) == IsNumber(x) /\ x > n

Min(a, b) == IF a < b THEN a ELSE b
Max(a, b) == IF a > b THEN a ELSE b

\* Math.round(x * 100) / 100 on the integer readings of the model
Round2(x) == (x * 100) \div 100

\* Array.prototype.slice(0, n)
Slice0(s, n) == SubSeq(s, 1, Min(n, Len(s)))

----------------------------------------------------------------------------
(* Quick collectors, alerts.js:98-181.  An exec outcome is a record        *)
(* [ok, stdout]: ok = FALSE when the command throws.                       *)

\* parseFloat of the trimmed stdout of the disk command: the number printed,
\* or NaN when the output is not a number.
ParseFloat(stdout) ==
    CASE stdout = "3" -> 3
      [] stdout = "5" -> 5
      [] stdout = "20" -> 20
      [] stdout = "50" -> 50
      [] OTHER -> NaN

\* parseInt of the stdout of the firewall command
ParseInt(stdout) ==
    CASE stdout = "0" -> 0
      [] stdout = "1" -> 1
      [] stdout = "2" -> 2
      [] stdout = "3" -> 3
      [] stdout = "5" -> 5
      [] stdout = "10" -> 10
      [] stdout = "11" -> 11
      [] OTHER -> NaN

\* alerts.js:101-107; load is (avgLoad / cpuCount) * 100
getCPUQuick(load) == Min(100, Round2(load))

\* alerts.js:112-124; used is (usedMemory / totalMemory) * 100
getMemoryQuick(used) == [usagePercent |-> Round2(used)]

\* alerts.js:129-148.  threw: the promise rejects (never, the catch block
\* returns the default).
getDiskQuickCheck(out) ==
    IF out.ok
    THEN LET percentFree == ParseFloat(out.stdout)
         IN [percentFree |-> IF percentFree = NaN THEN NA ELSE percentFree,
             warning |-> Lt(percentFree, 20),
             critical |-> Lt(percentFree, 5),
             threw |-> FALSE]
    ELSE [percentFree |-> NA, warning |-> FALSE, critical |-> FALSE, threw |-> FALSE]

\* alerts.js:155-161: .catch(() => ({ stdout: "" }))
CatchEmpty(out) == IF out.ok THEN out ELSE [ok |-> TRUE, stdout |-> ""]

\* getSecurityQuickCheck without the two .catch handlers of lines 157 and
\* 161: either command failing lands in the catch block of line 175
getSecurityQuickCheck_noInnerCatch(defenderOut, firewallOut) ==
    IF defenderOut.ok /\ firewallOut.ok
    THEN [defenderDisabled |-> defenderOut.stdout = "True",
          firewallDisabled |->
              ParseInt(IF firewallOut.stdout = "" THEN "0" ELSE firewallOut.stdout) = 0,
          threw |-> FALSE]
    ELSE [defenderDisabled |-> FALSE, firewallDisabled |-> FALSE, threw |-> FALSE]

\* alerts.js:153-181
getSecurityQuickCheck(defenderOut, firewallOut) ==
    LET defenderResult == CatchEmpty(defenderOut)
        firewallResult == CatchEmpty(firewallOut)
        defenderDisabled == defenderResult.stdout = "True"
        firewallEnabledProfiles ==
            ParseInt(IF firewallResult.stdout = "" THEN "0" ELSE firewallResult.stdout)
    IN [defenderDisabled |-> defenderDisabled,
        firewallDisabled |-> firewallEnabledProfiles = 0,
        threw |-> FALSE]

----------------------------------------------------------------------------
(* Alert messages *)

Msg(text, value) == [text |-> text, value |-> value]

CpuCriticalText == "CPU critically high"
CpuWarningText == "CPU elevated"
MemCriticalText == "Memory critically high"
MemWarningText == "Memory elevated"
DiskCriticalText == "Disk space critical"
DiskWarningText == "Low disk space"
DefenderText == "Windows Defender is disabled"
FirewallText == "Windows Firewall is disabled"

\* a.includes("Defender"): of the messages the program builds, only the
\* Defender message contains that word.
IncludesDefender(a) == a.text = DefenderText

\* lines 40-59 with a plain if in place of each else if
ClassifyAlerts_noElse(timestamp, cpuUsage, memUsage, diskUsage, securityStatus) ==
    LET cpuC == IF Gt(cpuUsage, 90) THEN <<Msg(CpuCriticalText, cpuUsage)>> ELSE <<>>
        cpuW == IF Gt(cpuUsage, 80) THEN <<Msg(CpuWarningText, cpuUsage)>> ELSE <<>>
        memC == IF Gt(memUsage.usagePercent, 90)
                THEN <<Msg(MemCriticalText, memUsage.usagePercent)>> ELSE <<>>
        memW == IF Gt(memUsage.usagePercent, 85)
                THEN <<Msg(MemWarningText, memUsage.usagePercent)>> ELSE <<>>
        dskC == IF Lt(diskUsage.percentFree, 5)
                THEN <<Msg(DiskCriticalText, diskUsage.percentFree)>> ELSE <<>>
        dskW == IF Lt(diskUsage.percentFree, 20)
                THEN <<Msg(DiskWarningText, diskUsage.percentFree)>> ELSE <<>>
        defC == IF securityStatus.defenderDisabled = TRUE
                THEN <<Msg(DefenderText, 0)>> ELSE <<>>
        fwC  == IF securityStatus.firewallDisabled = TRUE
                THEN <<Msg(FirewallText, 0)>> ELSE <<>>
    IN [timestamp |-> timestamp,
        critical |-> cpuC \o memC \o dskC \o defC \o fwC,
        warning |-> cpuW \o memW \o dskW,
        info |-> <<>>]

\* the security alerts pushed before those of CPU, memory and disk
ClassifyAlerts_securityFirst(timestamp, cpuUsage, memUsage, diskUsage, securityStatus) ==
    LET cpuC == IF Gt(cpuUsage, 90) THEN <<Msg(CpuCriticalText, cpuUsage)>> ELSE <<>>
        cpuW == IF ~Gt(cpuUsage, 90) /\ Gt(cpuUsage, 80)
                THEN <<Msg(CpuWarningText, cpuUsage)>> ELSE <<>>
        memC == IF Gt(memUsage.usagePercent, 90)
                THEN <<Msg(MemCriticalText, memUsage.usagePercent)>> ELSE <<>>
        memW == IF ~Gt(memUsage.usagePercent, 90) /\ Gt(memUsage.usagePercent, 85)
                THEN <<Msg(MemWarningText, memUsage.usagePercent)>> ELSE <<>>
        dskC == IF Lt(diskUsage.percentFree, 5)
                THEN <<Msg(DiskCriticalText, diskUsage.percentFree)>> ELSE <<>>
        dskW == IF ~Lt(diskUsage.percentFree, 5) /\ Lt(diskUsage.percentFree, 20)
                THEN <<Msg(DiskWarningText, diskUsage.percentFree)>> ELSE <<>>
        defC == IF securityStatus.defenderDisabled = TRUE
                THEN <<Msg(DefenderText, 0)>> ELSE <<>>
        fwC  == IF securityStatus.firewallDisabled = TRUE
                THEN <<Msg(FirewallText, 0)>> ELSE <<>>
    IN [timestamp |-> timestamp,
        critical |-> defC \o fwC \o cpuC \o memC \o dskC,
        warning |-> cpuW \o memW \o dskW,
        info |-> <<>>]

\* alerts.js:25-68: the three lists, in the order the checks run
ClassifyAlerts(timestamp, cpuUsage, memUsage, diskUsage, securityStatus) ==
    LET cpuC == IF Gt(cpuUsage, 90) THEN <<Msg(CpuCriticalText, cpuUsage)>> ELSE <<>>
        cpuW == IF ~Gt(cpuUsage, 90) /\ Gt(cpuUsage, 80)
                THEN <<Msg(CpuWarningText, cpuUsage)>> ELSE <<>>
        memC == IF Gt(memUsage.usagePercent, 90)
                THEN <<Msg(MemCriticalText, memUsage.usagePercent)>> ELSE <<>>
        memW == IF ~Gt(memUsage.usagePercent, 90) /\ Gt(memUsage.usagePercent, 85)
                THEN <<Msg(MemWarningText, memUsage.usagePercent)>> ELSE <<>>
        dskC == IF Lt(diskUsage.percentFree, 5)
                THEN <<Msg(DiskCriticalText, diskUsage.percentFree)>> ELSE <<>>
        dskW == IF ~Lt(diskUsage.percentFree, 5) /\ Lt(diskUsage.percentFree, 20)
                THEN <<Msg(DiskWarningText, diskUsage.percentFree)>> ELSE <<>>
        defC == IF securityStatus.defenderDisabled = TRUE
                THEN <<Msg(DefenderText, 0)>> ELSE <<>>
        fwC  == IF securityStatus.firewallDisabled = TRUE
                THEN <<Msg(FirewallText, 0)>> ELSE <<>>
    IN [timestamp |-> timestamp,
        critical |-> cpuC \o memC \o dskC \o defC \o fwC,
        warning |-> cpuW \o memW \o dskW,
        info |-> <<>>]

\* buildNextSteps without the slice(0, 2) of line 202
buildNextSteps_noCap(alerts, cpuUsage, memUsage, diskUsage) ==
    LET s1 == IF Gt(cpuUsage, 80) \/ Gt(memUsage.usagePercent, 85)
              THEN <<"get_performance_stats">> ELSE <<>>
        s2 == IF Lt(diskUsage.percentFree, 20)
              THEN <<"get_system_health">> ELSE <<>>
        s3 == IF \E i \in 1..Len(alerts.critical) : IncludesDefender(alerts.critical[i])
              THEN <<"get_system_health">> ELSE <<>>
    IN s1 \o s2 \o s3

\* alerts.js:186-203
buildNextSteps(alerts, cpuUsage, memUsage, diskUsage) ==
    LET s1 == IF Gt(cpuUsage, 80) \/ Gt(memUsage.usagePercent, 85)
              THEN <<"get_performance_stats">> ELSE <<>>
        s2 == IF Lt(diskUsage.percentFree, 20)
              THEN <<"get_system_health">> ELSE <<>>
        s3 == IF \E i \in 1..Len(alerts.critical) : IncludesDefender(alerts.critical[i])
              THEN <<"get_system_health">> ELSE <<>>
    IN Slice0(s1 \o s2 \o s3, MaxNextSteps)

\* calculateHealthScore without the Math.max(0, ...) of line 234
calculateHealthScore_noClamp(alerts) ==
    LET score == 100 - Len(alerts.critical) * CriticalPenalty
                     - Len(alerts.warning) * WarningPenalty
    IN [score |-> Round2(score),
        status |-> IF score >= 80 THEN "Good"
                   ELSE IF score >= 60 THEN "Fair"
                   ELSE IF score >= 40 THEN "Poor"
                   ELSE "Critical"]

\* calculateHealthScore with the cutoffs compared by > instead of >=
calculateHealthScore_strictBands(alerts) ==
    LET score == Max(0, 100 - Len(alerts.critical) * CriticalPenalty
                            - Len(alerts.warning) * WarningPenalty)
    IN [score |-> Round2(score),
        status |-> IF score > 80 THEN "Good"
                   ELSE IF score > 60 THEN "Fair"
                   ELSE IF score > 40 THEN "Poor"
                   ELSE "Critical"]

\* alerts.js:231-247
calculateHealthScore(alerts) ==
    LET criticalPenalty == Len(alerts.critical) * CriticalPenalty
        warningPenalty == Len(alerts.warning) * WarningPenalty
        score == Max(0, 100 - criticalPenalty - warningPenalty)
    IN [score |-> Round2(score),
        status |-> IF score >= 80 THEN "Good"
                   ELSE IF score >= 60 THEN "Fair"
                   ELSE IF score >= 40 THEN "Poor"
                   ELSE "Critical"]

\* generateSummary with slice(0, 1) in place of slice(0, 2)
generateSummary_oneIssue(alerts, nextSteps) ==
    LET healthScore == calculateHealthScore(alerts)
    IN IF Len(alerts.critical) > 0
       THEN [tag |-> "CRITICAL", issues |-> Slice0(alerts.critical, 1),
             run |-> IF nextSteps = <<>> THEN <<"get_performance_stats">> ELSE nextSteps,
             score |-> NA]
       ELSE IF Len(alerts.warning) > 0
       THEN [tag |-> "WARNING", issues |-> Slice0(alerts.warning, 1),
             run |-> IF nextSteps = <<>> THEN <<"investigate further">> ELSE nextSteps,
             score |-> NA]
       ELSE IF Len(alerts.info) > 0
       THEN [tag |-> "INFO", issues |-> Slice0(alerts.info, 1), run |-> <<>>, score |-> NA]
       ELSE [tag |-> "HEALTHY", issues |-> <<>>, run |-> <<>>, score |-> healthScore.score]

\* generateSummary without the warning branch of lines 216-219
generateSummary_noWarningBranch(alerts, nextSteps) ==
    IF Len(alerts.critical) > 0
    THEN [tag |-> "CRITICAL", issues |-> Slice0(alerts.critical, 2),
          run |-> IF nextSteps = <<>> THEN <<"get_performance_stats">> ELSE nextSteps,
          score |-> NA]
    ELSE [tag |-> "HEALTHY", issues |-> <<>>, run |-> <<>>,
          score |-> 100 - Len(alerts.warning) * WarningPenalty]

\* alerts.js:208-226.  The summary string is kept as its parts: the leading
\* tag, the issues joined by "; ", the probes joined by ", " after "Run:"
\* (nextSteps.join(", ") || fallback), and the score shown.
generateSummary(alerts, nextSteps) ==
    LET healthScore == calculateHealthScore(alerts)
    IN IF Len(alerts.critical) > 0
       THEN [tag |-> "CRITICAL", issues |-> Slice0(alerts.critical, 2),
             run |-> IF nextSteps = <<>> THEN <<"get_performance_stats">> ELSE nextSteps,
             score |-> NA]
       ELSE IF Len(alerts.warning) > 0
       THEN [tag |-> "WARNING", issues |-> Slice0(alerts.warning, 2),
             run |-> IF nextSteps = <<>> THEN <<"investigate further">> ELSE nextSteps,
             score |-> NA]
       ELSE IF Len(alerts.info) > 0
       THEN [tag |-> "INFO", issues |-> Slice0(alerts.info, 1), run |-> <<>>, score |-> NA]
       ELSE [tag |-> "HEALTHY", issues |-> <<>>, run |-> <<>>, score |-> healthScore.score]

\* alerts.js:70-89: the Report built from the classified alerts
BuildReport(alerts, cpuUsage, memUsage, diskUsage, cachedAt) ==
    LET nextStepsToCheck == buildNextSteps(alerts, cpuUsage, memUsage, diskUsage)
        actionableSummary == generateSummary(alerts, nextStepsToCheck)
    IN [timestamp |-> alerts.timestamp,
        critical |-> alerts.critical,
        warning |-> alerts.warning,
        info |-> alerts.info,
        alertCount |-> [critical |-> Len(alerts.critical),
                        warning |-> Len(alerts.warning),
                        info |-> Len(alerts.info),
                        total |-> Len(alerts.critical) + Len(alerts.warning)
                                  + Len(alerts.info)],
        systemHealthScore |-> calculateHealthScore(alerts),
        nextStepsToCheck |-> nextStepsToCheck,
        actionableSummary |-> actionableSummary,
        cacheInfo |-> [cachedAt |-> cachedAt, staleAfter |-> CACHE_TTL]]

----------------------------------------------------------------------------
(* The machine: what each collector would read *)

Failed == [ok |-> FALSE, stdout |-> ""]
Printed(stdout) == [ok |-> TRUE, stdout |-> stdout]

CpuLoads == {40, 80, 90, 120}
MemUsed == {40, 85, 90, 95}
DiskOuts == {Failed} \cup {Printed(s) : s \in {"3", "5", "20", "50", "garbage"}}
DefenderOuts == {Failed, Printed("True"), Printed("False")}
FirewallOuts == {Failed, Printed("0"), Printed("3")}

AllEnvs == [load : CpuLoads, used : MemUsed, disk : DiskOuts,
            defender : DefenderOuts, firewall : FirewallOuts]

Nominal == [load |-> 40, used |-> 40, disk |-> Printed("50"),
            defender |-> Printed("False"), firewall |-> Printed("3")]
AllCritical == [load |-> 120, used |-> 95, disk |-> Printed("3"),
                defender |-> Printed("True"), firewall |-> Printed("0")]
AllFailed == [load |-> 90, used |-> 40, disk |-> Failed,
              defender |-> Failed, firewall |-> Failed]
Scenarios == {Nominal, AllCritical}

----------------------------------------------------------------------------
(* call_tool handler, part_002:693-746 *)

AlertsTool == "get_health_alerts"
DeepTools == {"get_full_health_report", "get_performance_stats", "get_battery_status",
              "get_thermal_status", "get_network_status", "get_system_health"}
UnknownTools == {"get_everything"}

\* error.message
ErrMsg(text, arg) == [text |-> text, arg |-> arg]

\* part_002:725-732; JSON.stringify is injective on the documents of the
\* model, so the text is kept as the document it encodes.
HandlerReturn(result) ==
    [pc |-> "done",
     resp |-> <<[content |-> <<[type |-> "text", text |-> result]>>]>>]

\* the catch block without isError: true
HandlerCatch_noFlag(error, name) ==
    [pc |-> "done",
     resp |-> <<[content |-> <<[type |-> "text",
                                text |-> [error |-> error, tool |-> name]]>>]>>]

\* part_002:732-745
HandlerCatch(error, name) ==
    [pc |-> "done",
     resp |-> <<[content |-> <<[type |-> "text",
                                text |-> [error |-> error, tool |-> name]]>>,
                 isError |-> TRUE]>>]

\* A request whose handler is suspended at an await.  started lists the
\* collectors the call has invoked.
Pending(tool, now) ==
    [tool |-> tool, now |-> now, timestamp |-> 0,
     cpuUsage |-> 0, memUsage |-> [usagePercent |-> 0],
     diskUsage |-> <<>>, securityStatus |-> <<>>,
     started |-> <<>>]

\* the four collectors and the thermal probe
HealthCollectors_withThermal ==
    <<"getCPUQuick", "getMemoryQuick", "getDiskQuickCheck", "getSecurityQuickCheck",
      "getThermalStatus">>

\* alerts.js:33-38: the collectors handed to Promise.all
HealthCollectors ==
    <<"getCPUQuick", "getMemoryQuick", "getDiskQuickCheck", "getSecurityQuickCheck">>

Open(r) == calls' = calls (+) SetToBag({r})
Replace(r, q) == calls' = (calls (-) SetToBag({r})) (+) SetToBag({q})
Close(r) == calls' = calls (-) SetToBag({r})

\* The handler ends with outcome h (a response returned, or an exception
\* thrown); cached: the result is the cached Report, returned at line 22.
Finish(tool, cached, h) ==
    returned' = <<[tool |-> tool, cached |-> cached, pc |-> h.pc, resp |-> h.resp]>>

cacheVars == <<alertCache, cacheTimestamp>>
scoreVars == <<scoreIn, scoreOut>>

\* line 21 with a window of a third of CACHE_TTL
CacheFresh_shortWindow(now) ==
    alertCache # <<>> /\ (now - cacheTimestamp) * 3 < CACHE_TTL

\* line 21 with <= in place of <
CacheFresh_inclusive(now) == alertCache # <<>> /\ (now - cacheTimestamp) <= CACHE_TTL

\* alerts.js:21
CacheFresh(now) == alertCache # <<>> /\ (now - cacheTimestamp) < CACHE_TTL

\* A get_health_alerts request arrives: part_002:718-720 and alerts.js:17-38
\* up to the await.  getCPUQuick and getMemoryQuick have no await of their
\* own and read the machine during the call; the two commands are started.
\* Date.now() (line 18) and new Date() (line 26) are read in the same
\* synchronous block and give the same reading of the clock.
CallHealthAlerts ==
    /\ BagCardinality(calls) < MaxCalls
    /\ LET now == clock
       IN IF CacheFresh(now)
          THEN /\ Finish(AlertsTool, TRUE, HandlerReturn(alertCache[1]))
               /\ UNCHANGED calls
          ELSE /\ Open([Pending(AlertsTool, now) EXCEPT
                            !.timestamp = clock,
                            !.cpuUsage = getCPUQuick(env.load),
                            !.memUsage = getMemoryQuick(env.used),
                            !.started = HealthCollectors])
               /\ UNCHANGED returned
    /\ UNCHANGED <<clock, env, cacheVars, scoreVars, deepVars>>

Awaiting(r) == BagIn(r, calls) /\ r.tool = AlertsTool

\* the disk command of call r ends: getDiskQuickCheck settles
DiskSettle(r) ==
    /\ Awaiting(r)
    /\ r.diskUsage = <<>>
    /\ Replace(r, [r EXCEPT !.diskUsage = <<getDiskQuickCheck(env.disk)>>])
    /\ UNCHANGED <<clock, env, cacheVars, returned, scoreVars, deepVars>>

\* both security commands of call r have ended: getSecurityQuickCheck settles
SecuritySettle(r) ==
    /\ Awaiting(r)
    /\ r.securityStatus = <<>>
    /\ Replace(r, [r EXCEPT !.securityStatus =
                      <<getSecurityQuickCheck(env.defender, env.firewall)>>])
    /\ UNCHANGED <<clock, env, cacheVars, returned, scoreVars, deepVars>>

\* the handler resumes as soon as one of the two commands has ended and
\* takes the catch block's value for the other
ResumeHealthAlerts_firstSettled(r) ==
    /\ Awaiting(r)
    /\ r.diskUsage # <<>> \/ r.securityStatus # <<>>
    /\ LET diskUsage == IF r.diskUsage # <<>> THEN r.diskUsage[1]
                        ELSE getDiskQuickCheck(Failed)
           securityStatus == IF r.securityStatus # <<>> THEN r.securityStatus[1]
                             ELSE getSecurityQuickCheck(Failed, Failed)
           alerts == ClassifyAlerts(r.timestamp, r.cpuUsage, r.memUsage,
                                    diskUsage, securityStatus)
           result == BuildReport(alerts, r.cpuUsage, r.memUsage, diskUsage, clock)
       IN /\ alertCache' = <<result>>
          /\ cacheTimestamp' = r.now
          /\ Finish(AlertsTool, FALSE, HandlerReturn(result))
    /\ Close(r)
    /\ UNCHANGED <<clock, env, scoreVars, deepVars>>

\* a critical alert stays until a computation finds another one
ResumeHealthAlerts_hysteresis(r) ==
    /\ Awaiting(r)
    /\ r.diskUsage # <<>>
    /\ r.securityStatus # <<>>
    /\ LET diskUsage == r.diskUsage[1]
           securityStatus == r.securityStatus[1]
       IN IF diskUsage.threw \/ securityStatus.threw
          THEN /\ Finish(AlertsTool, FALSE,
                         HandlerCatch(ErrMsg("collector failed", ""), AlertsTool))
               /\ UNCHANGED cacheVars
          ELSE LET fresh == ClassifyAlerts(r.timestamp, r.cpuUsage, r.memUsage,
                                           diskUsage, securityStatus)
                   alerts == IF alertCache # <<>> /\ fresh.critical = <<>>
                             THEN [fresh EXCEPT !.critical = alertCache[1].critical]
                             ELSE fresh
                   result == BuildReport(alerts, r.cpuUsage, r.memUsage, diskUsage, clock)
               IN /\ alertCache' = <<result>>
                  /\ cacheTimestamp' = r.now
                  /\ Finish(AlertsTool, FALSE, HandlerReturn(result))
    /\ Close(r)
    /\ UNCHANGED <<clock, env, scoreVars, deepVars>>

\* Promise.all has settled: alerts.js:40-95, then part_002:725-745.  A
\* rejected collector would reject Promise.all and getHealthAlerts with it.
ResumeHealthAlerts(r) ==
    /\ Awaiting(r)
    /\ r.diskUsage # <<>>
    /\ r.securityStatus # <<>>
    /\ LET diskUsage == r.diskUsage[1]
           securityStatus == r.securityStatus[1]
       IN IF diskUsage.threw \/ securityStatus.threw
          THEN /\ Finish(AlertsTool, FALSE,
                         HandlerCatch(ErrMsg("collector failed", ""), AlertsTool))
               /\ UNCHANGED cacheVars
          ELSE LET alerts == ClassifyAlerts(r.timestamp, r.cpuUsage, r.memUsage,
                                            diskUsage, securityStatus)
                   result == BuildReport(alerts, r.cpuUsage, r.memUsage, diskUsage, clock)
               IN /\ alertCache' = <<result>>
                  /\ cacheTimestamp' = r.now
                  /\ Finish(AlertsTool, FALSE, HandlerReturn(result))
    /\ Close(r)
    /\ UNCHANGED <<clock, env, scoreVars, deepVars>>

\* A request for one of the other tools arrives: part_002:699-717
CallDeepProbe(name) ==
    /\ BagCardinality(calls) < MaxCalls
    /\ Open(Pending(name, clock))
    /\ UNCHANGED <<clock, env, cacheVars, returned, scoreVars, deepVars>>

\* The awaited probe resolves with its report or rejects
DeepProbeSettle(r, rejects) ==
    /\ BagIn(r, calls)
    /\ r.tool \in DeepTools
    /\ IF rejects
       THEN Finish(r.tool, FALSE, HandlerCatch(ErrMsg("probe failed", ""), r.tool))
       ELSE Finish(r.tool, FALSE, HandlerReturn([probe |-> r.tool]))
    /\ Close(r)
    /\ UNCHANGED <<clock, env, cacheVars, scoreVars, deepVars>>

\* A request names no tool of the server: part_002:720-721
CallUnknown(name) ==
    /\ BagCardinality(calls) < MaxCalls
    /\ Finish(name, FALSE, HandlerCatch(ErrMsg("Unknown tool", name), name))
    /\ UNCHANGED <<clock, env, cacheVars, calls, scoreVars, deepVars>>

Tick ==
    /\ clock < MaxClock
    /\ clock' = clock + TickMs
    /\ UNCHANGED <<env, cacheVars, calls, returned, scoreVars, deepVars>>

\* The machine's condition changes
EnvChange ==
    /\ env' \in Scenarios \ {env}
    /\ UNCHANGED <<clock, cacheVars, calls, returned, scoreVars, deepVars>>

\* A direct call of the pure score function
ScoreCall ==
    /\ scoreOut = <<>>
    /\ scoreOut' = <<calculateHealthScore(scoreIn)>>
    /\ UNCHANGED <<clock, env, cacheVars, calls, returned, scoreIn, deepVars>>

----------------------------------------------------------------------------
(* getThermalStatus: thermal.js *)

THERMAL_CACHE_TTL == 10000

\* What the four collectors resolve with.  None of them rejects: each has
\* its own try/catch.  The boolean of checkThermalThrottling is written as
\* the string "true" or "false" next to its third value "Unknown".
CpuTemps == {NA, 60, 85, 86, 95, 96}
GpuTemps == {NA, NaN, 85, 86}
Throttlings == {"true", "false", "Unknown"}
FansAvailable == [available |-> FALSE,
                  note |-> "Fan speed data not available through standard Windows APIs"]
FansFailed == [available |-> FALSE, note |-> "Unable to retrieve fan information"]

ThermalReadings == [cpuTemp : CpuTemps, gpuTemp : GpuTemps,
                    throttling : Throttlings, fans : {FansAvailable, FansFailed}]

\* the readings the cache is exercised with
ThermalScenarios == {[cpuTemp |-> 60, gpuTemp |-> NA, throttling |-> "false",
                      fans |-> FansAvailable],
                     [cpuTemp |-> 96, gpuTemp |-> 86, throttling |-> "true",
                      fans |-> FansAvailable],
                     [cpuTemp |-> NA, gpuTemp |-> NA, throttling |-> "Unknown",
                      fans |-> FansFailed]}

\* typeof x === "number": true of NaN too
TypeofNumber(x) == x # NA

\* a temperature that is not available counted as critical
ThermalSeverity_unavailableCritical(cpuTemp, gpuTemp, throttling) ==
    IF ~TypeofNumber(cpuTemp) \/ Gt(cpuTemp, 95) THEN "critical"
    ELSE IF throttling = "true" THEN "critical"
    ELSE IF TypeofNumber(cpuTemp) /\ Gt(cpuTemp, 85) THEN "warning"
    ELSE IF TypeofNumber(gpuTemp) /\ Gt(gpuTemp, 85) THEN "warning"
    ELSE "info"

\* thermal.js:106-138
ThermalSeverity(cpuTemp, gpuTemp, throttling) ==
    IF TypeofNumber(cpuTemp) /\ Gt(cpuTemp, 95) THEN "critical"
    ELSE IF throttling = "true" THEN "critical"
    ELSE IF TypeofNumber(cpuTemp) /\ Gt(cpuTemp, 85) THEN "warning"
    ELSE IF TypeofNumber(gpuTemp) /\ Gt(gpuTemp, 85) THEN "warning"
    ELSE "info"

\* thermal.js:111-138
ThermalRecommendations(cpuTemp, gpuTemp, throttling) ==
    IF TypeofNumber(cpuTemp) /\ Gt(cpuTemp, 95)
    THEN <<Msg("CPU temperature critical - shut down unnecessary applications immediately", 0),
           Msg("Ensure proper ventilation and check for dust buildup", 0)>>
    ELSE IF throttling = "true"
    THEN <<Msg("Thermal throttling detected - performance is being reduced to prevent overheating", 0),
           Msg("Close resource-intensive applications and improve cooling", 0)>>
    ELSE IF TypeofNumber(cpuTemp) /\ Gt(cpuTemp, 85)
    THEN <<Msg("CPU temperature elevated - monitor closely", cpuTemp),
           Msg("Consider improving airflow or reducing workload", 0)>>
    ELSE IF TypeofNumber(gpuTemp) /\ Gt(gpuTemp, 85)
    THEN <<Msg("GPU temperature elevated", gpuTemp),
           Msg("Close GPU-intensive applications if temperature persists", 0)>>
    ELSE IF TypeofNumber(cpuTemp) /\ IsNumber(cpuTemp) /\ cpuTemp <= 85
    THEN <<Msg("Thermal status normal", 0)>>
    ELSE <<Msg("Temperature monitoring unavailable - requires WMI access or hardware sensors", 0),
           Msg("Run PowerShell as Administrator for temperature data", 0)>>

\* thermal.js:114,119
ThermalNextSteps(cpuTemp, gpuTemp, throttling) ==
    IF (TypeofNumber(cpuTemp) /\ Gt(cpuTemp, 95)) \/ throttling = "true"
    THEN <<"get_performance_stats">> ELSE <<>>

\* thermal.js:141-153: the parts of the summary string
ThermalSummary(cpuTemp, gpuTemp, throttling) ==
    IF TypeofNumber(cpuTemp)
    THEN [cpu |-> cpuTemp,
          gpu |-> IF TypeofNumber(gpuTemp) THEN gpuTemp ELSE NA,
          throttling |-> throttling = "true",
          unavailable |-> FALSE]
    ELSE [cpu |-> NA, gpu |-> NA, throttling |-> FALSE, unavailable |-> TRUE]

\* thermal.js:156-176
ThermalResult(e, timestamp, cachedAt) ==
    [timestamp |-> timestamp,
     severity |-> ThermalSeverity(e.cpuTemp, e.gpuTemp, e.throttling),
     cpu |-> [temperatureCelsius |-> e.cpuTemp,
              unit |-> IF TypeofNumber(e.cpuTemp) THEN "C" ELSE "N/A"],
     gpu |-> [temperatureCelsius |-> e.gpuTemp,
              unit |-> IF TypeofNumber(e.gpuTemp) THEN "C" ELSE "N/A"],
     thermalThrottling |-> e.throttling,
     fans |-> e.fans,
     actionableSummary |-> ThermalSummary(e.cpuTemp, e.gpuTemp, e.throttling),
     recommendations |-> ThermalRecommendations(e.cpuTemp, e.gpuTemp, e.throttling),
     nextStepsToCheck |-> ThermalNextSteps(e.cpuTemp, e.gpuTemp, e.throttling),
     cacheInfo |-> [cachedAt |-> cachedAt, staleAfter |-> THERMAL_CACHE_TTL]]

\* <= in place of < at line 95
ThermalFresh_inclusive(now) ==
    thermalCache # <<>> /\ (now - thermalCacheTimestamp) <= THERMAL_CACHE_TTL

\* thermal.js:95
ThermalFresh(now) ==
    thermalCache # <<>> /\ (now - thermalCacheTimestamp) < THERMAL_CACHE_TTL

\* getThermalStatus is called: thermal.js:92-104.  A fresh cache is returned
\* at once; otherwise the four collectors are started and the call waits.
CallThermalStatus ==
    /\ BagCardinality(thermalCalls) < MaxCalls
    /\ LET now == clock
       IN IF ThermalFresh(now)
          THEN /\ thermalReturned' = <<[cached |-> TRUE, result |-> thermalCache[1]]>>
               /\ UNCHANGED thermalCalls
          ELSE /\ thermalCalls' = thermalCalls (+) SetToBag({[now |-> now]})
               /\ UNCHANGED thermalReturned
    /\ UNCHANGED <<clock, env, cacheVars, calls, returned, scoreVars, reportVars,
                   thermalCache, thermalCacheTimestamp, networkVars, perfVars>>

\* Promise.all of call r has settled with the readings e: thermal.js:106-182.
\* new Date() at lines 157 and 173 reads the clock after the await.
ResumeThermalStatus(r, e) ==
    /\ BagIn(r, thermalCalls)
    /\ LET result == ThermalResult(e, clock, clock)
       IN /\ thermalCache' = <<result>>
          /\ thermalCacheTimestamp' = r.now
          /\ thermalReturned' = <<[cached |-> FALSE, result |-> result]>>
    /\ thermalCalls' = thermalCalls (-) SetToBag({r})
    /\ UNCHANGED <<clock, env, cacheVars, calls, returned, scoreVars, reportVars,
                   networkVars, perfVars>>

ThermalTickMs == 5000
ThermalMaxClock == 10000

ThermalTick ==
    /\ clock < ThermalMaxClock
    /\ clock' = clock + ThermalTickMs
    /\ UNCHANGED <<env, cacheVars, calls, returned, scoreVars, deepVars>>

----------------------------------------------------------------------------
(* getNetworkStatus: part_002:752-975 *)

CONNECTIVITY_CACHE_TTL == 30000

CheckedServer == "8.8.8.8 (Google DNS)"

\* what the Test-Connection command does: it throws, or prints True or False
PingOuts == {Failed, Printed("True"), Printed("False")}

\* part_002:804-808
ConnectivityResult(stdout) ==
    [connected |-> stdout = "True", checkedServer |-> CheckedServer]

\* part_002:816-820
ConnectivityError ==
    [connected |-> FALSE, checkedServer |-> CheckedServer,
     error |-> "Unable to verify connectivity"]

\* part_002:795  { ...connectivityCache, fromCache: true }
FromCache(cache) == [fromCache |-> TRUE] @@ cache

\* os.networkInterfaces() as listed by getNetworkInterfaces: part_002:766-785
InterfaceReadings ==
    {<<>>,
     <<[name |-> "Ethernet", ipv4 |-> "192.168.1.2", ipv6 |-> "N/A", mac |-> "00:11"]>>}

\* what getConnectedDevices resolves with: part_002:833-914.  It never
\* rejects: both methods are caught, and the fallback is the all-N/A record.
DeviceReadings ==
    {[usbDevices |-> 2, bluetoothDevices |-> 1, totalConnectedDevices |-> 3,
      method |-> "Get-PnpDevice"],
     [usbDevices |-> 2, bluetoothDevices |-> NA, totalConnectedDevices |-> 2,
      method |-> "WMI (USB only)"],
     [usbDevices |-> NA, bluetoothDevices |-> NA, totalConnectedDevices |-> NA,
      method |-> "none"]}

\* part_002:926-950
NetworkSeverity(connectivity, devices) ==
    IF connectivity.connected = FALSE THEN "critical"
    ELSE IF devices.usbDevices = NA \/ devices.bluetoothDevices = NA THEN "warning"
    ELSE "info"

\* part_002:932-950
NetworkRecommendations(connectivity, devices) ==
    IF connectivity.connected = FALSE
    THEN <<Msg("No internet connectivity detected", 0),
           Msg("Check network cables, Wi-Fi connection, or router status", 0),
           Msg("Try: ipconfig /release && ipconfig /renew (run as Administrator)", 0)>>
    ELSE IF devices.usbDevices = NA \/ devices.bluetoothDevices = NA
    THEN <<Msg("Device enumeration incomplete - requires elevated permissions", 0),
           Msg("Run PowerShell as Administrator for full device visibility", 0)>>
    ELSE <<Msg("Network status normal", 0)>>
         \o (IF Gt(devices.usbDevices, 0) \/ Gt(devices.bluetoothDevices, 0)
             THEN <<Msg("Connected devices", devices.totalConnectedDevices)>>
             ELSE <<>>)

\* part_002:953-963: the parts of the summary string
NetworkSummary(interfaces, connectivity, devices) ==
    LET activeInterfaces ==
            SelectSeq(interfaces, LAMBDA i : i.ipv4 # "N/A" \/ i.ipv6 # "N/A")
    IN [connected |-> connectivity.connected,
        interfaces |-> Len(activeInterfaces),
        devices |-> IF connectivity.connected THEN devices.totalConnectedDevices ELSE NA]

\* part_002:965-974
NetworkResult(interfaces, connectivity, devices, timestamp) ==
    [timestamp |-> timestamp,
     severity |-> NetworkSeverity(connectivity, devices),
     interfaces |-> interfaces,
     internetConnectivity |-> connectivity,
     connectedDevices |-> devices,
     actionableSummary |-> NetworkSummary(interfaces, connectivity, devices),
     recommendations |-> NetworkRecommendations(connectivity, devices),
     nextStepsToCheck |-> <<>>]

\* the thermal TTL in place of CONNECTIVITY_CACHE_TTL
ConnectivityFresh_shortWindow(now) ==
    connectivityCache # <<>> /\ (now - connectivityTimestamp) < THERMAL_CACHE_TTL

\* part_002:794
ConnectivityFresh(now) ==
    connectivityCache # <<>> /\ (now - connectivityTimestamp) < CONNECTIVITY_CACHE_TTL

\* getNetworkStatus is called: part_002:919-924.  The three collectors are
\* started in the same synchronous block; checkInternetConnectivity
\* (part_002:790-801) either resolves with the cached result or starts the
\* ping.  The call then waits for getConnectedDevices in either case.
CallNetworkStatus(interfaces) ==
    /\ BagCardinality(networkCalls) < MaxCalls
    /\ LET now == clock
           connectivity == IF ConnectivityFresh(now)
                           THEN <<FromCache(connectivityCache[1])>>
                           ELSE <<>>
       IN networkCalls' = networkCalls (+)
             SetToBag({[now |-> now, interfaces |-> interfaces,
                        connectivity |-> connectivity]})
    /\ UNCHANGED <<clock, env, cacheVars, calls, returned, scoreVars, reportVars, thermalVars,
                   connectivityCache, connectivityTimestamp, connectivityCachedAt,
                   networkReturned, perfVars>>

\* a call whose ping is in flight
Pinging(r) == BagIn(r, networkCalls) /\ r.connectivity = <<>>

\* the ping of call r ends: part_002:803-827
PingSettle(r, out) ==
    /\ Pinging(r)
    /\ LET result == IF out.ok THEN ConnectivityResult(out.stdout) ELSE ConnectivityError
       IN /\ connectivityCache' = <<result>>
          /\ connectivityTimestamp' = r.now
          /\ connectivityCachedAt' = clock
          /\ networkCalls' = (networkCalls (-) SetToBag({r}))
                             (+) SetToBag({[r EXCEPT !.connectivity = <<result>>]})
    /\ UNCHANGED <<clock, env, cacheVars, calls, returned, scoreVars, reportVars, thermalVars,
                   networkReturned, perfVars>>

\* Promise.all of call r has settled, getConnectedDevices with the record
\* devices: part_002:926-974.  new Date() at line 966 reads the clock now.
ResumeNetworkStatus(r, devices) ==
    /\ BagIn(r, networkCalls)
    /\ r.connectivity # <<>>
    /\ networkReturned' =
          <<[calledAt |-> r.now,
             result |-> NetworkResult(r.interfaces, r.connectivity[1], devices, clock)]>>
    /\ networkCalls' = networkCalls (-) SetToBag({r})
    /\ UNCHANGED <<clock, env, cacheVars, calls, returned, scoreVars, reportVars, thermalVars,
                   connectivityCache, connectivityTimestamp, connectivityCachedAt,
                   perfVars>>

NetworkTickMs == 15000
NetworkMaxClock == 30000

NetworkTick ==
    /\ clock < NetworkMaxClock
    /\ clock' = clock + NetworkTickMs
    /\ UNCHANGED <<env, cacheVars, calls, returned, scoreVars, deepVars>>

----------------------------------------------------------------------------
(* getPerformanceStats: part_003 *)

DefaultProcessLimit == 5
MaxProcesses == 6      \* processes running on the machine

\* an option that is absent is <<>>, one that is given is <<value>>
PerfOptions == [includeProcesses : {<<>>, <<TRUE>>, <<FALSE>>},
                processLimit : {<<>>, <<1>>, <<3>>, <<7>>}]

\* part_003:96  destructuring with defaults
OptionOr(option, default) == IF option = <<>> THEN default ELSE option[1]

PerfLoads == {40, 85, 95}
PerfUsed == {40, 88, 95}
DiskIOReadings == {[readMBps |-> NA, writeMBps |-> NA],
                   [readMBps |-> 50, writeMBps |-> 10],
                   [readMBps |-> 150, writeMBps |-> 10]}

\* part_003:10-17
getCPUUsage(load) == Min(100, Round2(load))

\* part_003:80-91
getMemoryBreakdown(used) == [usagePercent |-> Round2(used)]

\* part_003:22-34: Select-Object -First limit of the running processes,
\* sorted by CPU; [] when the command fails or prints nothing
getTopProcesses(limit, running) ==
    [i \in 1..Min(limit, running) |-> [Name |-> "proc", rank |-> i]]

\* the process enumerator started whatever includeProcesses says
PerfChecks_always(includeProcesses) ==
    <<"getCPUUsage", "getMemoryBreakdown", "getDiskIOStats", "getTopProcesses">>

\* part_003:99-108: the collectors getPerformanceStats starts
PerfChecks(includeProcesses) ==
    <<"getCPUUsage", "getMemoryBreakdown", "getDiskIOStats">>
    \o (IF includeProcesses THEN <<"getTopProcesses">> ELSE <<>>)

\* part_003:117-122
PerfSeverity(cpuUsage, memory) ==
    IF Gt(cpuUsage, 90) \/ Gt(memory.usagePercent, 90) THEN "critical"
    ELSE IF Gt(cpuUsage, 80) \/ Gt(memory.usagePercent, 85) THEN "warning"
    ELSE "info"

\* part_003:131-140
PerfRecommendations(cpuUsage, memory, diskIO) ==
    (IF Gt(cpuUsage, 80)
     THEN <<"Check top processes for CPU-intensive tasks">> ELSE <<>>)
    \o (IF Gt(memory.usagePercent, 85)
        THEN <<"Close unused applications to free memory">> ELSE <<>>)
    \o (IF Gt(diskIO.readMBps, 100)
        THEN <<"Disk I/O is high - heavy file operations in progress">> ELSE <<>>)

SkippedNote == "Skipped (set includeProcesses: true to enumerate)"

\* part_003:115-163.  topProcesses is the list or the string of line 160;
\* the field skipped tells which.
PerfResult(includeProcesses, processLimit, cpuUsage, memory, diskIO, results3, timestamp) ==
    LET topProcesses == IF includeProcesses THEN results3 ELSE <<>>
        severity == PerfSeverity(cpuUsage, memory)
    IN [timestamp |-> timestamp,
        severity |-> severity,
        cpu |-> [usagePercent |-> cpuUsage],
        memory |-> memory,
        diskIO |-> diskIO,
        actionableSummary |->
            [cpu |-> cpuUsage, memory |-> memory.usagePercent,
             topProcess |-> IF includeProcesses /\ Len(topProcesses) > 0
                            THEN <<topProcesses[1]>> ELSE <<>>],
        recommendations |-> PerfRecommendations(cpuUsage, memory, diskIO),
        nextStepsToCheck |-> IF severity = "critical"
                             THEN <<"get_thermal_status">> ELSE <<>>,
        topProcesses |-> IF includeProcesses
                         THEN [skipped |-> FALSE, note |-> "",
                               list |-> Slice0(topProcesses, processLimit)]
                         ELSE [skipped |-> TRUE, note |-> SkippedNote, list |-> <<>>]]

\* getPerformanceStats is called: part_003:95-110.  CPU and memory are read
\* in the same synchronous block; the commands are started.
CallPerformanceStats(options, load, used) ==
    /\ perfCall = <<>>
    /\ LET includeProcesses == OptionOr(options.includeProcesses, TRUE)
           processLimit == OptionOr(options.processLimit, DefaultProcessLimit)
       IN perfCall' = <<[options |-> options,
                         includeProcesses |-> includeProcesses,
                         processLimit |-> processLimit,
                         started |-> PerfChecks(includeProcesses),
                         cpuUsage |-> getCPUUsage(load),
                         memory |-> getMemoryBreakdown(used)]>>
    /\ UNCHANGED <<clock, env, cacheVars, calls, returned, scoreVars, reportVars, thermalVars,
                   networkVars, perfReturned>>

\* Promise.all has settled: part_003:110-163
ResumePerformanceStats(diskIO, running) ==
    /\ perfCall # <<>>
    /\ LET r == perfCall[1]
           results3 == IF r.includeProcesses
                       THEN getTopProcesses(r.processLimit, running) ELSE <<>>
       IN perfReturned' =
             <<[call |-> r, diskIO |-> diskIO,
                result |-> PerfResult(r.includeProcesses, r.processLimit, r.cpuUsage,
                                      r.memory, diskIO, results3, clock)]>>
    /\ perfCall' = <<>>
    /\ UNCHANGED <<clock, env, cacheVars, calls, returned, scoreVars, reportVars, thermalVars,
                   networkVars>>

----------------------------------------------------------------------------
(* getBatteryStatus: part_002:977-1135 *)

BatteryCountOuts == {Failed, Printed("0"), Printed("1")}
PowerPlanOuts == {Failed, Printed("Balanced")}
ACOuts == {Failed, Printed(""), Printed("3")}

\* What the Win32_Battery query yields after JSON.parse: <<>> when the
\* command throws or prints null, else <<the object>>
BatteryCharges == {5, 9, 10, 24, 25, 80}
BatteryStatusCodes == {1, 2, 3, 9}
BatteryJsons ==
    {<<>>} \cup {<<[EstimatedChargeRemaining |-> c, BatteryStatus |-> b]>> :
                    c \in BatteryCharges, b \in BatteryStatusCodes}

\* part_002:1070-1080
checkBatteryExists(out) == IF out.ok THEN Gt(ParseInt(out.stdout), 0) ELSE TRUE

\* part_002:1095-1101
statusMap(code) ==
    CASE code = 1 -> "Discharging"
      [] code = 2 -> "AC Power"
      [] code = 3 -> "Fully Charged"
      [] code = 4 -> "Low"
      [] code = 5 -> "Critical"
      [] OTHER -> "Unknown"

\* part_002:1085-1108 behind .catch(() => null) of line 1014: <<>> is null
getBatteryBasic(json) ==
    IF json = <<>> THEN <<>>
    ELSE <<[chargePercent |-> json[1].EstimatedChargeRemaining,
            status |-> statusMap(json[1].BatteryStatus),
            chemistry |-> "Unknown"]>>

\* part_002:1113-1119 behind .catch(() => "Unknown") of line 995
getPowerPlanOnly(out) ==
    IF out.ok /\ out.stdout # "" THEN out.stdout ELSE "Unknown"

\* part_002:1124-1132 behind .catch(() => "Unknown") of line 1033
getACStatus(out) ==
    IF ~out.ok THEN "Unknown"
    ELSE IF out.stdout # "" /\ out.stdout # "0" THEN "AC Power" ELSE "Discharging"

\* part_002:986-1050.  No collector rejects, so the outer catch of line 1051
\* is never entered.
getBatteryStatus(countOut, planOut, json, acOut, timestamp) ==
    LET hasBattery == checkBatteryExists(countOut)
        powerPlan == getPowerPlanOnly(planOut)
        basicBattery == getBatteryBasic(json)
    IN IF ~hasBattery
       THEN [timestamp |-> timestamp, chargePercent |-> NA, status |-> "Desktop System",
             powerPlan |-> powerPlan, method |-> "No Battery", severity |-> "info",
             recommendations |->
                <<"No action needed - battery data not applicable to desktop systems">>,
             nextStepsToCheck |-> <<>>]
       ELSE IF basicBattery # <<>>
       THEN [timestamp |-> timestamp,
             chargePercent |-> basicBattery[1].chargePercent,
             status |-> basicBattery[1].status,
             powerPlan |-> powerPlan, method |-> "WMI Basic",
             severity |-> IF Lt(basicBattery[1].chargePercent, 25)
                          THEN "warning" ELSE "info",
             recommendations |-> IF Lt(basicBattery[1].chargePercent, 25)
                                 THEN <<"Consider connecting to power soon">>
                                 ELSE <<"Battery status normal">>,
             nextStepsToCheck |-> <<>>]
       ELSE [timestamp |-> timestamp, chargePercent |-> NA, status |-> getACStatus(acOut),
             powerPlan |-> powerPlan, method |-> "Fallback", severity |-> "info",
             recommendations |->
                <<"Run PowerShell as Administrator for detailed battery information">>,
             nextStepsToCheck |-> <<>>]

\* One call of getBatteryStatus from start to return: the probe shares no
\* state with other calls.
CallBatteryStatus(countOut, planOut, json, acOut) ==
    /\ batteryReturned' =
          <<[commands |-> [count |-> countOut, plan |-> planOut,
                           battery |-> json, ac |-> acOut],
             result |-> getBatteryStatus(countOut, planOut, json, acOut, clock)]>>
    /\ UNCHANGED <<clock, env, cacheVars, calls, returned, scoreVars,
                   thermalVars, networkVars, perfVars, systemHealthReturned>>

----------------------------------------------------------------------------
(* getSystemHealth: systemHealth.js *)

UpdatesOuts == {Failed, Printed("0"), Printed("2")}
ErrorsOuts == {Failed, Printed("0"), Printed("5"), Printed("10"), Printed("11")}

\* a JavaScript boolean, written as a string next to the value "Unknown"
Bool(b) == IF b THEN "true" ELSE "false"

\* parseInt(x) || 0
ParseIntOr0(stdout) == IF IsNumber(ParseInt(stdout)) THEN ParseInt(stdout) ELSE 0

\* systemHealth.js:9-28
getDefenderStatus(out) ==
    IF out.ok
    THEN [active |-> Bool(out.stdout # "True"),
          realTimeMonitoring |-> Bool(out.stdout # "True")]
    ELSE [active |-> "Unknown", realTimeMonitoring |-> "Unknown"]

\* systemHealth.js:33-51
getFirewallStatus(out) ==
    IF out.ok
    THEN [active |-> Bool(Gt(ParseInt(out.stdout), 0)),
          enabledProfiles |-> ParseInt(out.stdout)]
    ELSE [active |-> "Unknown", enabledProfiles |-> NA]

\* systemHealth.js:56-75
getPendingUpdates(out) ==
    IF out.ok
    THEN [pending |-> Bool(ParseIntOr0(out.stdout) > 0), count |-> ParseIntOr0(out.stdout)]
    ELSE [pending |-> "Unknown", count |-> NA]

\* systemHealth.js:80-98
getSystemErrors(out) ==
    IF out.ok
    THEN [errors24h |-> ParseIntOr0(out.stdout),
          critical |-> Bool(ParseIntOr0(out.stdout) > 10)]
    ELSE [errors24h |-> NA, critical |-> "Unknown"]

\* systemHealth.js:103-122
getDiskHealth(out) ==
    IF out.ok
    THEN [percentFree |-> ParseFloat(out.stdout),
          warning |-> Lt(ParseFloat(out.stdout), 20),
          critical |-> Lt(ParseFloat(out.stdout), 5)]
    ELSE [percentFree |-> NA, warning |-> FALSE, critical |-> FALSE]

\* systemHealth.js:136-243.  The summary is the tag of the string and the
\* issues it joins; the recommendations follow the same conditions.
getSystemHealth(defender, firewall, updates, errors, disk, timestamp) ==
    LET criticalIssues ==
            (IF defender.active = "false"
             THEN <<Msg("Windows Defender is disabled", 0)>> ELSE <<>>)
            \o (IF firewall.active = "false"
                THEN <<Msg("Windows Firewall is disabled", 0)>> ELSE <<>>)
            \o (IF TypeofNumber(disk.percentFree) /\ Lt(disk.percentFree, 5)
                THEN <<Msg("Disk space critical", disk.percentFree)>> ELSE <<>>)
            \o (IF TypeofNumber(errors.errors24h) /\ Gt(errors.errors24h, 10)
                THEN <<Msg("High system error count", errors.errors24h)>> ELSE <<>>)
        diskWarning ==
            IF TypeofNumber(disk.percentFree) /\ IsNumber(disk.percentFree)
               /\ disk.percentFree >= 5 /\ disk.percentFree < 20
            THEN <<Msg("Low disk space", disk.percentFree)>> ELSE <<>>
        errorsWarning ==
            IF TypeofNumber(errors.errors24h) /\ IsNumber(errors.errors24h)
               /\ errors.errors24h >= 5 /\ errors.errors24h <= 10
            THEN <<Msg("Moderate system errors", errors.errors24h)>> ELSE <<>>
        updatesWarning ==
            IF updates.pending = "true" /\ updates.count # NA
            THEN <<Msg("Windows updates pending", updates.count)>> ELSE <<>>
        warnings == IF criticalIssues # <<>> THEN <<>>
                    ELSE diskWarning \o errorsWarning \o updatesWarning
        severity == IF criticalIssues # <<>> THEN "critical"
                    ELSE IF diskWarning # <<>> \/ errorsWarning # <<>> THEN "warning"
                    ELSE "info"
    IN [timestamp |-> timestamp,
        severity |-> severity,
        antivirus |-> defender,
        firewall |-> firewall,
        updates |-> updates,
        systemLogs |-> errors,
        disk |-> disk,
        actionableSummary |->
            IF criticalIssues # <<>> THEN [tag |-> "CRITICAL", issues |-> criticalIssues]
            ELSE IF warnings # <<>> THEN [tag |-> "WARNING", issues |-> warnings]
            ELSE [tag |-> "HEALTHY", issues |-> <<>>],
        nextStepsToCheck |->
            IF TypeofNumber(errors.errors24h) /\ Gt(errors.errors24h, 10)
            THEN <<"get_performance_stats">> ELSE <<>>]

\* One call of getSystemHealth from start to return: the probe shares no
\* state with other calls, and none of its collectors rejects.
CallSystemHealth(defenderOut, firewallOut, updatesOut, errorsOut, diskOut) ==
    /\ systemHealthReturned' =
          <<[commands |-> [defender |-> defenderOut, firewall |-> firewallOut,
                           updates |-> updatesOut, errors |-> errorsOut,
                           disk |-> diskOut],
             result |-> getSystemHealth(getDefenderStatus(defenderOut),
                                        getFirewallStatus(firewallOut),
                                        getPendingUpdates(updatesOut),
                                        getSystemErrors(errorsOut),
                                        getDiskHealth(diskOut), clock)]>>
    /\ UNCHANGED <<clock, env, cacheVars, calls, returned, scoreVars,
                   thermalVars, networkVars, perfVars, batteryReturned>>

----------------------------------------------------------------------------
(* Specifications *)

NoAlerts == [critical |-> <<>>, warning |-> <<>>]

InitServer ==
    /\ clock = 0
    /\ alertCache = <<>>
    /\ cacheTimestamp = 0
    /\ calls = EmptyBag
    /\ returned = <<>>
    /\ thermalCache = <<>>
    /\ thermalCacheTimestamp = 0
    /\ thermalCalls = EmptyBag
    /\ thermalReturned = <<>>
    /\ connectivityCache = <<>>
    /\ connectivityTimestamp = 0
    /\ connectivityCachedAt = 0
    /\ networkCalls = EmptyBag
    /\ networkReturned = <<>>
    /\ perfCall = <<>>
    /\ perfReturned = <<>>
    /\ batteryReturned = <<>>
    /\ systemHealthReturned = <<>>

AlertsNext ==
    \/ CallHealthAlerts
    \/ \E r \in BagToSet(calls) : DiskSettle(r)
    \/ \E r \in BagToSet(calls) : SecuritySettle(r)
    \/ \E r \in BagToSet(calls) : ResumeHealthAlerts(r)

\* The cache of get_health_alerts under concurrent calls, a running clock
\* and a machine whose condition changes.
Init ==
    /\ InitServer
    /\ env \in Scenarios
    /\ scoreIn = NoAlerts
    /\ scoreOut = <<>>

Next ==
    \/ AlertsNext
    \/ Tick
    \/ EnvChange

Spec == Init /\ [][Next]_vars

\* Every reading the collectors can return, on a machine whose condition
\* stays the same for the whole behaviour.
InitReadings ==
    /\ InitServer
    /\ env \in AllEnvs
    /\ scoreIn = NoAlerts
    /\ scoreOut = <<>>

NextReadings == AlertsNext

SpecReadings == InitReadings /\ [][NextReadings]_vars

\* get_health_alerts when every command that was started ends and the event
\* loop runs every continuation that is ready: alerts.js:33-38.  No request
\* has to arrive and the clock does not have to be read again.
InitFair ==
    /\ InitServer
    /\ env \in {Nominal, AllCritical, AllFailed}
    /\ scoreIn = NoAlerts
    /\ scoreOut = <<>>

NextFair ==
    \/ AlertsNext
    \/ Tick

\* the readings of Date.now()
Clocks == {c \in 0..(MaxClock + TickMs) : c % TickMs = 0}

\* the invocations of getHealthAlerts that can be suspended at line 33, with
\* the collectors that have settled so far
Invocations ==
    UNION {{[Pending(AlertsTool, now) EXCEPT
                 !.timestamp = now,
                 !.cpuUsage = getCPUQuick(e.load),
                 !.memUsage = getMemoryQuick(e.used),
                 !.started = HealthCollectors,
                 !.diskUsage = d,
                 !.securityStatus = s] :
                now \in Clocks,
                d \in {<<>>, <<getDiskQuickCheck(e.disk)>>},
                s \in {<<>>, <<getSecurityQuickCheck(e.defender, e.firewall)>>}} :
           e \in {Nominal, AllCritical, AllFailed}}

\* the next step of invocation r: a command ends, or Promise.all resolves
Proceed(r) == DiskSettle(r) \/ SecuritySettle(r) \/ ResumeHealthAlerts(r)

SpecFair ==
    /\ InitFair
    /\ [][NextFair]_vars
    /\ \A r \in Invocations : WF_vars(Proceed(r))

\* The call_tool handler serving every tool name
InitHandler ==
    /\ InitServer
    /\ env \in {Nominal, AllFailed}
    /\ scoreIn = NoAlerts
    /\ scoreOut = <<>>

NextHandler ==
    \/ AlertsNext
    \/ \E name \in DeepTools : CallDeepProbe(name)
    \/ \E r \in BagToSet(calls) : \E rejects \in BOOLEAN : DeepProbeSettle(r, rejects)
    \/ \E name \in UnknownTools : CallUnknown(name)

SpecHandler == InitHandler /\ [][NextHandler]_vars

\* calculateHealthScore on arbitrary alert lists
MaxCritical == 7
MaxWarning == 3

SeqsUpTo(S, n) == UNION {[1..k -> S] : k \in 0..n}

InitScore ==
    /\ InitServer
    /\ env = Nominal
    /\ scoreIn \in [critical : SeqsUpTo({Msg(CpuCriticalText, 95), Msg(FirewallText, 0)},
                                        MaxCritical),
                    warning : SeqsUpTo({Msg(CpuWarningText, 85), Msg(DiskWarningText, 10)},
                                       MaxWarning)]
    /\ scoreOut = <<>>

NextScore == ScoreCall

SpecScore == InitScore /\ [][NextScore]_vars

\* The cache of getThermalStatus under concurrent calls and a running clock
InitThermal ==
    /\ InitServer
    /\ env = Nominal
    /\ scoreIn = NoAlerts
    /\ scoreOut = <<>>

NextThermal ==
    \/ CallThermalStatus
    \/ \E r \in BagToSet(thermalCalls) : \E e \in ThermalScenarios : ResumeThermalStatus(r, e)
    \/ ThermalTick

SpecThermal == InitThermal /\ [][NextThermal]_vars

\* getThermalStatus on every reading of its collectors, the clock standing
NextThermalReadings ==
    \/ CallThermalStatus
    \/ \E r \in BagToSet(thermalCalls) : \E e \in ThermalReadings : ResumeThermalStatus(r, e)

SpecThermalReadings == InitThermal /\ [][NextThermalReadings]_vars

\* getNetworkStatus and the connectivity cache under concurrent calls
InitNetwork ==
    /\ InitServer
    /\ env = Nominal
    /\ scoreIn = NoAlerts
    /\ scoreOut = <<>>

NextNetwork ==
    \/ \E interfaces \in InterfaceReadings : CallNetworkStatus(interfaces)
    \/ \E r \in BagToSet(networkCalls) : \E out \in PingOuts : PingSettle(r, out)
    \/ \E r \in BagToSet(networkCalls) : \E devices \in DeviceReadings :
          ResumeNetworkStatus(r, devices)
    \/ NetworkTick

SpecNetwork == InitNetwork /\ [][NextNetwork]_vars

\* getPerformanceStats on every option and reading
InitPerf ==
    /\ InitServer
    /\ env = Nominal
    /\ scoreIn = NoAlerts
    /\ scoreOut = <<>>

NextPerf ==
    \/ \E options \in PerfOptions : \E load \in PerfLoads : \E used \in PerfUsed :
          CallPerformanceStats(options, load, used)
    \/ \E diskIO \in DiskIOReadings : \E running \in 0..MaxProcesses :
          ResumePerformanceStats(diskIO, running)

SpecPerf == InitPerf /\ [][NextPerf]_vars

\* getBatteryStatus on every outcome of its commands
InitBattery ==
    /\ InitServer
    /\ env = Nominal
    /\ scoreIn = NoAlerts
    /\ scoreOut = <<>>

NextBattery ==
    \E countOut \in BatteryCountOuts : \E planOut \in PowerPlanOuts :
       \E json \in BatteryJsons : \E acOut \in ACOuts :
          CallBatteryStatus(countOut, planOut, json, acOut)

SpecBattery == InitBattery /\ [][NextBattery]_vars

\* getSystemHealth on every outcome of its commands
InitSystemHealth ==
    /\ InitServer
    /\ env = Nominal
    /\ scoreIn = NoAlerts
    /\ scoreOut = <<>>

NextSystemHealth ==
    \E defenderOut \in DefenderOuts : \E firewallOut \in FirewallOuts :
       \E updatesOut \in UpdatesOuts : \E errorsOut \in ErrorsOuts :
          \E diskOut \in DiskOuts :
             CallSystemHealth(defenderOut, firewallOut, updatesOut, errorsOut, diskOut)

SpecSystemHealth == InitSystemHealth /\ [][NextSystemHealth]_vars

----------------------------------------------------------------------------
(* Properties.  Report, when a get_health_alerts response has been         *)
(* returned, is the Report it carries.                                     *)

Range(s) == {s[i] : i \in 1..Len(s)}

IsErrorResponse(o) == "isError" \in DOMAIN o.resp[1]
Document(o) == o.resp[1].content[1].text

AlertsReturned ==
    /\ returned # <<>>
    /\ returned[1].tool = AlertsTool
    /\ returned[1].pc = "done"
    /\ ~IsErrorResponse(returned[1])

Report == Document(returned[1])

C2_StatusBands ==
    scoreOut # <<>> =>
        LET score == scoreOut[1].score
            status == scoreOut[1].status
        IN /\ status \in {"Good", "Fair", "Poor", "Critical"}
           /\ (status = "Good") <=> (score >= 80)
           /\ (status = "Fair") <=> (60 <= score /\ score < 80)
           /\ (status = "Poor") <=> (40 <= score /\ score < 60)
           /\ (status = "Critical") <=> (score < 40)

\* a score exactly on a cutoff
C2_Witness ==
    /\ scoreOut # <<>>
    /\ scoreOut[1].score = 60
    /\ scoreOut[1].status = "Fair"

NoDuplicates(s) == \A i, j \in 1..Len(s) : i # j => s[i] # s[j]

\* C3: nextStepsToCheck of every Report has at most 2 entries, names no probe
\* twice, and names the performance probe before the system/security probe.
C3_NextStepsCappedDistinctOrdered ==
    AlertsReturned =>
        LET steps == Report.nextStepsToCheck
        IN /\ Len(steps) <= 2
           /\ NoDuplicates(steps)
           /\ \A i, j \in 1..Len(steps) :
                (steps[i] = "get_performance_stats" /\ steps[j] = "get_system_health")
                    => i < j

SecurityCritical(report) ==
    \E a \in Range(report.critical) : a.text \in {DefenderText, FirewallText}

\* C4: a Report with a critical alert about Defender or the firewall names
\* get_system_health in nextStepsToCheck.  (Two earlier probes can only be
\* the performance probe and get_system_health itself, so the cap never
\* excuses its absence.)
C4_SecurityAlertRecommendsSystemHealth ==
    (AlertsReturned /\ SecurityCritical(Report)) =>
        "get_system_health" \in Range(Report.nextStepsToCheck)

\* C5: a get_health_alerts call that arrives while a Report is cached and
\* less than 3000 ms have passed since its computation began returns that
\* Report as it is (same timestamp, same cacheInfo.cachedAt), whatever the
\* machine reads now, and leaves the Cache Entry alone; so it returns what
\* the previous call returned when that call, too, got the cached Report.
C5_CallsWithinTtlReturnCachedReport ==
    [][(CallHealthAlerts /\ alertCache # <<>> /\ clock - cacheTimestamp < 3000) =>
          /\ returned' # <<>>
          /\ returned'[1].tool = AlertsTool
          /\ returned'[1].pc = "done"
          /\ ~IsErrorResponse(returned'[1])
          /\ Document(returned'[1]) = alertCache[1]
          /\ Document(returned'[1]).timestamp = alertCache[1].timestamp
          /\ Document(returned'[1]).cacheInfo.cachedAt = alertCache[1].cacheInfo.cachedAt
          /\ UNCHANGED <<alertCache, cacheTimestamp, calls>>
          /\ (AlertsReturned /\ Report = alertCache[1]) => returned'[1].resp = returned[1].resp
      ]_vars

\* the last call was answered from the cache, some time after the Report was
\* computed, although the machine no longer reads what the Report says
C5_Witness ==
    /\ AlertsReturned
    /\ returned[1].cached
    /\ Report.timestamp < clock
    /\ Report.critical = <<>>
    /\ env = AllCritical

\* C6: a get_health_alerts call that arrives when nothing is cached, or 3000
\* ms or more after the cached computation began, starts a fresh computation
\* whose timestamp is strictly newer than that of the Report cached at that
\* moment; when the computation resumes it stores its Report in the Cache
\* Entry and returns that same Report.
C6_MissRecomputesAndOverwrites ==
    [][/\ (CallHealthAlerts /\ (alertCache = <<>> \/ clock - cacheTimestamp >= 3000)) =>
            /\ BagCardinality(calls') = BagCardinality(calls) + 1
            /\ UNCHANGED <<returned, alertCache, cacheTimestamp>>
            /\ \E r \in BagToSet(calls') :
                  /\ CopiesIn(r, calls') = CopiesIn(r, calls) + 1
                  /\ r.tool = AlertsTool
                  /\ r.diskUsage = <<>> /\ r.securityStatus = <<>>
                  /\ r.timestamp = clock
                  /\ alertCache # <<>> => r.timestamp > alertCache[1].timestamp
       /\ \A r \in BagToSet(calls) : ResumeHealthAlerts(r) =>
            /\ alertCache' # <<>>
            /\ alertCache'[1].timestamp = r.timestamp
            /\ cacheTimestamp' = r.now
            /\ returned'[1].pc = "done" /\ ~returned'[1].cached
            /\ ~IsErrorResponse(returned'[1])
            /\ Document(returned'[1]) = alertCache'[1]
      ]_vars

\* a fresh computation is in flight for a call that arrived 3000 ms or more
\* after the computation of the Report that was cached when it arrived
C6_Witness ==
    /\ alertCache # <<>>
    /\ \E r \in BagToSet(calls) :
          /\ r.tool = AlertsTool
          /\ alertCache[1].cacheInfo.cachedAt < r.now
          /\ r.now - cacheTimestamp >= 3000
          /\ r.timestamp > alertCache[1].timestamp
          /\ r.diskUsage # <<>>

\* C7: at most one fresh computation of get_health_alerts is in flight.
C7_SingleFlight ==
    BagCardinality(calls) <= 1

DiskTexts == {DiskCriticalText, DiskWarningText}

AlertTexts(report) ==
    {a.text : a \in Range(report.critical) \cup Range(report.warning)}

\* C8: a Report computed while the disk, Defender or firewall command fails
\* has no critical or warning alert of that domain.
C8_FailedCollectorRaisesNoAlert ==
    AlertsReturned =>
        /\ ~env.disk.ok => AlertTexts(Report) \cap DiskTexts = {}
        /\ ~env.defender.ok => DefenderText \notin AlertTexts(Report)
        /\ ~env.firewall.ok => FirewallText \notin AlertTexts(Report)

\* The Report of a fresh computation that reads e for every collector
ReportOn(e, timestamp, cachedAt) ==
    LET cpuUsage == getCPUQuick(e.load)
        memUsage == getMemoryQuick(e.used)
        diskUsage == getDiskQuickCheck(e.disk)
        securityStatus == getSecurityQuickCheck(e.defender, e.firewall)
    IN BuildReport(ClassifyAlerts(timestamp, cpuUsage, memUsage, diskUsage, securityStatus),
                   cpuUsage, memUsage, diskUsage, cachedAt)

ReportFields == {"timestamp", "critical", "warning", "info", "alertCount",
                 "systemHealthScore", "nextStepsToCheck", "actionableSummary",
                 "cacheInfo"}

Domains == {{CpuCriticalText, CpuWarningText}, {MemCriticalText, MemWarningText},
            DiskTexts, {DefenderText}, {FirewallText}}

\* the alerts of one domain, in both lists
DomainAlerts(report, texts) ==
    [critical |-> {a \in Range(report.critical) : a.text \in texts},
     warning |-> {a \in Range(report.warning) : a.text \in texts}]

\* e with the failed command of one domain replaced by a command that works
Repaired(e) ==
    [dom \in {DiskTexts, {DefenderText}, {FirewallText}} |->
        IF dom = DiskTexts
        THEN IF e.disk.ok THEN {} ELSE {[e EXCEPT !.disk = o] : o \in DiskOuts \ {Failed}}
        ELSE IF dom = {DefenderText}
        THEN IF e.defender.ok THEN {}
             ELSE {[e EXCEPT !.defender = o] : o \in DefenderOuts \ {Failed}}
        ELSE IF e.firewall.ok THEN {}
             ELSE {[e EXCEPT !.firewall = o] : o \in FirewallOuts \ {Failed}}]

\* C9: whatever commands fail, the handler of get_health_alerts ends with a
\* complete Report, never with an error; and the alerts of every domain other
\* than a failed one are those the Report would hold had that command worked.
C9_AlwaysReportFailuresIsolated ==
    (returned # <<>>) =>
        /\ returned[1].pc = "done"
        /\ ~IsErrorResponse(returned[1])
        /\ DOMAIN Report = ReportFields
        /\ \A failed \in DOMAIN Repaired(env) : \A e \in Repaired(env)[failed] :
             \A dom \in Domains \ {failed} :
                DomainAlerts(Report, dom) = DomainAlerts(ReportOn(e, 0, 0), dom)

\* a Report returned although all three commands failed, with its CPU alert
C9_Witness ==
    /\ AlertsReturned
    /\ ~env.disk.ok /\ ~env.defender.ok /\ ~env.firewall.ok
    /\ env.load = 120
    /\ CpuCriticalText \in AlertTexts(Report)

IsErrorDocument(o, error, tool) ==
    /\ o.pc = "done"
    /\ "isError" \in DOMAIN o.resp[1]
    /\ o.resp[1].isError = TRUE
    /\ Document(o) = [error |-> error, tool |-> tool]

\* C10: the handler never throws; an unknown tool name and a rejecting probe
\* both end in a response with isError set that carries the error message
\* and the requested tool name; such a call closes its request and touches
\* neither the cache nor the other open requests.
C10_ErrorsBecomeErrorResponses ==
    [][/\ returned' # <<>> => returned'[1].pc = "done"
       /\ \A name \in UnknownTools : CallUnknown(name) =>
            /\ IsErrorDocument(returned'[1], ErrMsg("Unknown tool", name), name)
            /\ UNCHANGED <<calls, alertCache, cacheTimestamp>>
       /\ \A r \in BagToSet(calls) : DeepProbeSettle(r, TRUE) =>
            /\ IsErrorDocument(returned'[1], ErrMsg("probe failed", ""), r.tool)
            /\ BagCardinality(calls') = BagCardinality(calls) - 1
            /\ UNCHANGED <<alertCache, cacheTimestamp>>
      ]_vars

\* the error response of a rejected probe, with a Report of an earlier
\* request in the cache and another request still open
C10_Witness ==
    /\ returned # <<>>
    /\ returned[1].tool \in DeepTools
    /\ IsErrorResponse(returned[1])
    /\ Document(returned[1]).tool = returned[1].tool
    /\ alertCache # <<>>
    /\ BagCardinality(calls) > 0

\* C11 as claimed: the thresholds are inclusive, a CPU usage of exactly 80
\* gives a CPU warning and exactly 90 a CPU critical alert, a memory usage of
\* exactly 85 a memory warning and exactly 90 a memory critical alert.
C11_ThresholdsInclusive ==
    AlertsReturned =>
        /\ env.load = 80 => Msg(CpuWarningText, 80) \in Range(Report.warning)
        /\ env.load = 90 => Msg(CpuCriticalText, 90) \in Range(Report.critical)
        /\ env.used = 85 => Msg(MemWarningText, 85) \in Range(Report.warning)
        /\ env.used = 90 => Msg(MemCriticalText, 90) \in Range(Report.critical)

\* C11 amended: the thresholds are exclusive.  A CPU usage of exactly 80 and
\* a memory usage of exactly 85 give no alert of that metric; exactly 90
\* gives the warning of the metric, not the critical alert.
C11_ThresholdsExclusive ==
    AlertsReturned =>
        /\ env.load = 80 =>
              AlertTexts(Report) \cap {CpuWarningText, CpuCriticalText} = {}
        /\ env.load = 90 =>
              /\ Msg(CpuWarningText, 90) \in Range(Report.warning)
              /\ CpuCriticalText \notin AlertTexts(Report)
        /\ env.used = 85 =>
              AlertTexts(Report) \cap {MemWarningText, MemCriticalText} = {}
        /\ env.used = 90 =>
              /\ Msg(MemWarningText, 90) \in Range(Report.warning)
              /\ MemCriticalText \notin AlertTexts(Report)

\* a Report for a CPU usage of exactly 80 and a memory usage of exactly 90
C11_Witness ==
    /\ AlertsReturned
    /\ env.load = 80
    /\ env.used = 90
    /\ Report.warning = <<Msg(MemWarningText, 90)>>

MetricDomains == {{CpuCriticalText, CpuWarningText}, {MemCriticalText, MemWarningText},
                  DiskTexts}

\* C12: no Report has both the warning and the critical alert of CPU, of
\* memory or of disk, nor the same alert twice; a Report has at most five
\* alerts.
C12_OneSeverityPerMetric ==
    AlertsReturned =>
        /\ \A dom \in MetricDomains :
              Cardinality({i \in 1..Len(Report.critical) : Report.critical[i].text \in dom})
              + Cardinality({i \in 1..Len(Report.warning) : Report.warning[i].text \in dom})
                 <= 1
        /\ NoDuplicates(Report.critical)
        /\ Len(Report.critical) + Len(Report.warning) + Len(Report.info) <= 5
        /\ Report.alertCount.total <= 5

\* a Report with five alerts
C12_Witness ==
    /\ AlertsReturned
    /\ Report.alertCount.total = 5
    /\ Len(Report.critical) = 5

AllCriticalReadings(e) ==
    /\ e.load > 90
    /\ e.used > 90
    /\ e.disk.ok /\ e.disk.stdout \in {"3"}
    /\ e.defender = Printed("True")
    /\ e.firewall = Printed("0")

\* C14: with CPU, memory and disk critical and Defender and the firewall
\* disabled, the Report has the five critical alerts CPU, memory, disk,
\* Defender, firewall in that order, score 25, status Critical, and
\* nextStepsToCheck = [get_performance_stats, get_system_health].
C14_AllCriticalScenario ==
    (AlertsReturned /\ AllCriticalReadings(env)) =>
        /\ [i \in 1..Len(Report.critical) |-> Report.critical[i].text]
             = <<CpuCriticalText, MemCriticalText, DiskCriticalText,
                 DefenderText, FirewallText>>
        /\ Report.warning = <<>>
        /\ Report.alertCount.critical = 5
        /\ Report.systemHealthScore = [score |-> 25, status |-> "Critical"]
        /\ Report.nextStepsToCheck = <<"get_performance_stats", "get_system_health">>

C14_Witness ==
    /\ AlertsReturned
    /\ AllCriticalReadings(env)
    /\ Len(Report.nextStepsToCheck) = 2

NoThresholdCrossed(e) ==
    /\ e.load <= 80
    /\ e.used <= 85
    /\ e.disk.ok /\ e.disk.stdout \in {"20", "50"}
    /\ e.defender = Printed("False")
    /\ e.firewall = Printed("3")

ThermalReturned == thermalReturned # <<>>

\* C16: a getThermalStatus call that arrives while a result is cached and
\* less than 10000 ms have passed since its computation began returns that
\* result as it is (same timestamp, same cachedAt) and leaves the cache
\* alone, so two such calls return the identical Report; a call that arrives
\* with nothing cached, or 10000 ms or more after the cached computation
\* began, starts a computation that, when it resumes, stores its result in
\* the thermal cache and returns it.
C16_ThermalCacheContract ==
    [][/\ (CallThermalStatus /\ thermalCache # <<>>
                             /\ clock - thermalCacheTimestamp < 10000) =>
            /\ thermalReturned' = <<[cached |-> TRUE, result |-> thermalCache[1]]>>
            /\ thermalReturned'[1].result.timestamp = thermalCache[1].timestamp
            /\ thermalReturned'[1].result.cacheInfo.cachedAt
                  = thermalCache[1].cacheInfo.cachedAt
            /\ UNCHANGED <<thermalCache, thermalCacheTimestamp, thermalCalls>>
            /\ (ThermalReturned /\ thermalReturned[1].result = thermalCache[1]) =>
                  thermalReturned'[1].result = thermalReturned[1].result
       /\ (CallThermalStatus /\ (thermalCache = <<>>
                                 \/ clock - thermalCacheTimestamp >= 10000)) =>
            /\ BagCardinality(thermalCalls') = BagCardinality(thermalCalls) + 1
            /\ CopiesIn([now |-> clock], thermalCalls')
                  = CopiesIn([now |-> clock], thermalCalls) + 1
            /\ UNCHANGED <<thermalReturned, thermalCache, thermalCacheTimestamp>>
       /\ \A r \in BagToSet(thermalCalls) : \A e \in ThermalScenarios :
            ResumeThermalStatus(r, e) =>
               /\ thermalCache' = <<ThermalResult(e, clock, clock)>>
               /\ thermalCacheTimestamp' = r.now
               /\ thermalReturned'[1].result = thermalCache'[1]
               /\ ~thermalReturned'[1].cached
      ]_vars

\* a call answered from the thermal cache after time has passed, the cached
\* result being that of a recomputation made 10 s after an earlier one
C16_Witness ==
    /\ ThermalReturned
    /\ thermalReturned[1].cached
    /\ thermalReturned[1].result = thermalCache[1]
    /\ thermalCacheTimestamp >= 10000
    /\ thermalCache[1].timestamp >= 10000

NetworkReturned == networkReturned # <<>>

NetworkReport == networkReturned[1].result

\* the call took its connectivity from the cache
UsedConnectivityCache(r) ==
    r.connectivity # <<>> /\ "fromCache" \in DOMAIN r.connectivity[1]

\* the connectivity data of a result, without the fromCache mark
ConnectivityData(connectivity) ==
    [f \in DOMAIN connectivity \ {"fromCache"} |-> connectivity[f]]

ConnectivityFailed(cache) == cache # <<>> /\ "error" \in DOMAIN cache[1]

\* C18: while the result of a failed connectivity check is cached, a
\* getNetworkStatus call made less than 30 s after the failure issues no
\* ping, and the first call made 30 s or more after it issues one.
C18_NoPingFor30sAfterFailure ==
    [][\A interfaces \in InterfaceReadings :
          (CallNetworkStatus(interfaces) /\ ConnectivityFailed(connectivityCache))
          => \E r \in BagToSet(networkCalls') :
                /\ CopiesIn(r, networkCalls') = CopiesIn(r, networkCalls) + 1
                /\ r.now = clock
                /\ IF clock - connectivityCachedAt < 30000
                   THEN UsedConnectivityCache(r)
                   ELSE r.connectivity = <<>>
      ]_vars

\* C19: a Report of getNetworkStatus whose connectivity check threw marks
\* connectivity as unavailable and does not have severity critical.
C19_ThrownPingIsNotCritical ==
    (NetworkReturned /\ "error" \in DOMAIN NetworkReport.internetConnectivity) =>
        /\ NetworkReport.internetConnectivity.connected = FALSE
        /\ NetworkReport.internetConnectivity.error = "Unable to verify connectivity"
        /\ NetworkReport.severity # "critical"

PerfReturned == perfReturned # <<>>

PerfReport == perfReturned[1].result

\* the Report of the other mode for the same call and readings
OtherMode(running) ==
    LET r == perfReturned[1].call
        includeProcesses == ~r.includeProcesses
    IN PerfResult(includeProcesses, r.processLimit, r.cpuUsage, r.memory,
                  perfReturned[1].diskIO,
                  IF includeProcesses THEN getTopProcesses(r.processLimit, running) ELSE <<>>,
                  clock)

\* C20: with includeProcesses false getPerformanceStats never starts the
\* process enumerator and reports topProcesses as skipped; with
\* includeProcesses true or absent the enumerator is started once and the
\* topProcesses list has at most processLimit entries, 5 when no limit is
\* given; severity, recommendations and nextStepsToCheck are those of the
\* other mode for the same readings.
C20_ProcessEnumerationOptional ==
    /\ perfCall # <<>> =>
          /\ perfCall[1].options.includeProcesses = <<FALSE>>
                => "getTopProcesses" \notin Range(perfCall[1].started)
          /\ perfCall[1].options.includeProcesses \in {<<>>, <<TRUE>>}
                => Cardinality({i \in 1..Len(perfCall[1].started) :
                                   perfCall[1].started[i] = "getTopProcesses"}) = 1
    /\ PerfReturned =>
          LET options == perfReturned[1].call.options
          IN /\ options.includeProcesses = <<FALSE>> =>
                   /\ "getTopProcesses" \notin Range(perfReturned[1].call.started)
                   /\ PerfReport.topProcesses.skipped
                   /\ PerfReport.topProcesses.note = SkippedNote
             /\ options.includeProcesses \in {<<>>, <<TRUE>>} =>
                   /\ ~PerfReport.topProcesses.skipped
                   /\ options.processLimit # <<>> =>
                         Len(PerfReport.topProcesses.list) <= options.processLimit[1]
                   /\ options.processLimit = <<>> =>
                         Len(PerfReport.topProcesses.list) <= 5
             /\ \A running \in 0..MaxProcesses :
                   /\ PerfReport.severity = OtherMode(running).severity
                   /\ PerfReport.recommendations = OtherMode(running).recommendations
                   /\ PerfReport.nextStepsToCheck = OtherMode(running).nextStepsToCheck

\* a critical Report that skipped the enumeration
C20_Witness ==
    /\ PerfReturned
    /\ perfReturned[1].call.options.includeProcesses = <<FALSE>>
    /\ PerfReport.topProcesses.skipped
    /\ PerfReport.severity = "critical"
    /\ Len(PerfReport.recommendations) = 3

\* a Report with as many processes as the default limit allows, on a machine
\* that runs more
C20_WitnessDefaultLimit ==
    /\ PerfReturned
    /\ perfReturned[1].call.options = [includeProcesses |-> <<>>, processLimit |-> <<>>]
    /\ Len(PerfReport.topProcesses.list) = 5

CriticalCheckOrder ==
    <<CpuCriticalText, MemCriticalText, DiskCriticalText, DefenderText, FirewallText>>

WarningCheckOrder == <<CpuWarningText, MemWarningText, DiskWarningText>>

PositionIn(text, order) == CHOOSE i \in 1..Len(order) : order[i] = text

\* list holds alerts of order only, each before those that order puts later
InCheckOrder(list, order) ==
    /\ \A i \in 1..Len(list) : list[i].text \in Range(order)
    /\ \A i, j \in 1..Len(list) :
          i < j => PositionIn(list[i].text, order) < PositionIn(list[j].text, order)

\* C22: in every Report of getHealthAlerts the critical alerts stand in the
\* order CPU, memory, disk, Defender, firewall and the warnings in the order
\* CPU, memory, disk, whether the disk command or the security commands of
\* the call ended first.
C22_AlertsInCheckOrder ==
    AlertsReturned =>
        /\ InCheckOrder(Report.critical, CriticalCheckOrder)
        /\ InCheckOrder(Report.warning, WarningCheckOrder)

\* a Report with the disk warning after the CPU warning and the two security
\* alerts after the memory alert
C22_Witness ==
    /\ AlertsReturned
    /\ ~returned[1].cached
    /\ [i \in 1..Len(Report.critical) |-> Report.critical[i].text]
          = <<MemCriticalText, DefenderText, FirewallText>>
    /\ [i \in 1..Len(Report.warning) |-> Report.warning[i].text]
          = <<CpuWarningText, DiskWarningText>>

\* C23: a get_health_alerts call that finds the cache fresh starts no
\* collector and leaves the Cache Entry alone; a call that finds it empty or
\* stale starts getCPUQuick, getMemoryQuick, getDiskQuickCheck and
\* getSecurityQuickCheck once each and nothing else; neither touches the
\* state of the thermal, network or performance probes.
C23_OnlyCheapCollectors ==
    [][CallHealthAlerts =>
          /\ UNCHANGED <<alertCache, cacheTimestamp, deepVars>>
          /\ IF alertCache # <<>> /\ clock - cacheTimestamp < 3000
             THEN /\ UNCHANGED calls
                  /\ returned'[1].cached
             ELSE \E r \in BagToSet(calls') :
                     /\ CopiesIn(r, calls') = CopiesIn(r, calls) + 1
                     /\ BagCardinality(calls') = BagCardinality(calls) + 1
                     /\ Len(r.started) = 4
                     /\ Range(r.started) = {"getCPUQuick", "getMemoryQuick",
                                            "getDiskQuickCheck", "getSecurityQuickCheck"}
      ]_vars

\* a call was answered from the cache while another call, which had found
\* the cache empty, waits for the collectors it started
C23_Witness ==
    /\ AlertsReturned
    /\ returned[1].cached
    /\ alertCache # <<>>
    /\ \E r \in BagToSet(calls) :
          /\ r.tool = AlertsTool
          /\ r.started = HealthCollectors
          /\ r.diskUsage = <<>>

\* the alert lists, counts, score, next steps and summary of a Report
Classification(report) ==
    [critical |-> report.critical, warning |-> report.warning, info |-> report.info,
     alertCount |-> report.alertCount,
     systemHealthScore |-> report.systemHealthScore,
     nextStepsToCheck |-> report.nextStepsToCheck,
     actionableSummary |-> report.actionableSummary]

\* C27: the alert lists, counts, score, next steps and summary of a freshly
\* computed Report are a function of the readings of that computation alone:
\* they are what a computation with the same readings yields on a server
\* that has cached and returned nothing, whatever is cached or was returned
\* when the computation ends.
C27_ClassificationStateless ==
    [][\A r \in BagToSet(calls) :
          (ResumeHealthAlerts(r) /\ r.tool = AlertsTool) =>
             Classification(Document(returned'[1]))
                = Classification(
                     BuildReport(ClassifyAlerts(0, r.cpuUsage, r.memUsage,
                                                r.diskUsage[1], r.securityStatus[1]),
                                 r.cpuUsage, r.memUsage, r.diskUsage[1], 0))
      ]_vars

\* a fresh Report without alerts, computed after the Report of an earlier
\* computation had expired, on a machine that has since become critical
C27_Witness ==
    /\ AlertsReturned
    /\ ~returned[1].cached
    /\ Report.timestamp >= 3000
    /\ Report.alertCount.total = 0
    /\ Report = alertCache[1]
    /\ env = AllCritical

\* C28: the timestamp of the Cache Entry never decreases, and the cached
\* Report is never replaced by one whose computation started earlier.
C28_CacheNeverGoesBack ==
    [][/\ cacheTimestamp' >= cacheTimestamp
       /\ (alertCache # <<>> /\ alertCache' # alertCache) =>
             alertCache'[1].timestamp >= alertCache[1].timestamp
      ]_vars

\* C29: a call made while a Report is cached and earlier than its
\* cacheInfo.cachedAt + cacheInfo.staleAfter returns that Report.
C29_AdvertisedValidityHolds ==
    [][(/\ CallHealthAlerts
        /\ alertCache # <<>>
        /\ clock < alertCache[1].cacheInfo.cachedAt + alertCache[1].cacheInfo.staleAfter)
       => /\ returned' # <<>>
          /\ returned'[1].cached
          /\ Document(returned'[1]) = alertCache[1]
          /\ UNCHANGED calls
      ]_vars

\* C30: the probes the summary of a Report names after "Run:" are the
\* entries of its nextStepsToCheck, in the same order.
C30_SummaryNamesNextSteps ==
    AlertsReturned =>
        /\ Report.actionableSummary.run = Report.nextStepsToCheck
        /\ Range(Report.actionableSummary.run) \subseteq Range(Report.nextStepsToCheck)

BatteryReport == batteryReturned[1].result

\* C21: in a Report of getBatteryStatus that has a charge reading, while
\* the battery is discharging a charge below 10 is critical and a charge
\* from 10 to below 25 is a warning; when it is not discharging the
\* severity is info.
C21_BatteryDischargingThresholds ==
    (batteryReturned # <<>> /\ BatteryReport.method = "WMI Basic") =>
        IF BatteryReport.status = "Discharging"
        THEN /\ BatteryReport.chargePercent < 10 => BatteryReport.severity = "critical"
             /\ (BatteryReport.chargePercent >= 10 /\ BatteryReport.chargePercent < 25)
                   => BatteryReport.severity = "warning"
        ELSE BatteryReport.severity = "info"

SystemHealthReport == systemHealthReturned[1].result

\* the Report records a critical issue
HasCriticalIssue(report) ==
    \/ report.antivirus.active = "false"
    \/ report.firewall.active = "false"
    \/ Lt(report.disk.percentFree, 5)
    \/ Gt(report.systemLogs.errors24h, 10)

\* the Report records a warning
HasWarning(report) ==
    \/ (Gt(report.disk.percentFree, 4) /\ Lt(report.disk.percentFree, 20))
    \/ (Gt(report.systemLogs.errors24h, 4) /\ Lt(report.systemLogs.errors24h, 11))
    \/ report.updates.pending = "true"

\* C24: the severity of a getSystemHealth Report is critical iff a critical
\* issue was found (Defender off, firewall off, disk free < 5, more than 10
\* system errors), otherwise warning iff a warning was found (disk free in
\* [5,20), 5 to 10 system errors, pending updates), otherwise info; a
\* reading that is unavailable counts as neither.
C24_SeverityIsMaximum ==
    systemHealthReturned # <<>> =>
        SystemHealthReport.severity =
            IF HasCriticalIssue(SystemHealthReport) THEN "critical"
            ELSE IF HasWarning(SystemHealthReport) THEN "warning"
            ELSE "info"

ThermalReport == thermalReturned[1].result

\* C25: the severity of a getThermalStatus Report is critical iff the CPU
\* temperature is above 95 or throttling is detected, otherwise warning iff
\* the CPU or the GPU temperature is above 85, otherwise info.  With no CPU
\* temperature, no throttling and no GPU temperature above 85 it is info and
\* the recommendations explain that temperatures are unavailable.
\* nextStepsToCheck holds get_performance_stats exactly when the severity is
\* critical.
C25_ThermalSeverityByReadings ==
    ThermalReturned =>
        LET cpuTemp == ThermalReport.cpu.temperatureCelsius
            gpuTemp == ThermalReport.gpu.temperatureCelsius
            throttling == ThermalReport.thermalThrottling
        IN /\ ThermalReport.severity =
                 IF (cpuTemp # NA /\ cpuTemp > 95) \/ throttling = "true" THEN "critical"
                 ELSE IF (cpuTemp # NA /\ cpuTemp > 85)
                         \/ (gpuTemp \notin {NA, NaN} /\ gpuTemp > 85) THEN "warning"
                 ELSE "info"
           /\ (cpuTemp = NA /\ throttling # "true"
                  /\ ~(gpuTemp \notin {NA, NaN} /\ gpuTemp > 85)) =>
                 /\ ThermalReport.severity = "info"
                 /\ ThermalReport.recommendations[1].text =
                       "Temperature monitoring unavailable - requires WMI access or hardware sensors"
           /\ cpuTemp = NA => ~(ThermalReport.severity = "critical" /\ throttling # "true")
           /\ ThermalReport.nextStepsToCheck =
                 IF ThermalReport.severity = "critical"
                 THEN <<"get_performance_stats">> ELSE <<>>

\* a Report without CPU temperature whose severity is info
C25_Witness ==
    /\ ThermalReturned
    /\ ~thermalReturned[1].cached
    /\ ThermalReport.cpu.temperatureCelsius = NA
    /\ ThermalReport.gpu.temperatureCelsius = 85
    /\ ThermalReport.thermalThrottling = "Unknown"
    /\ ThermalReport.severity = "info"
    /\ Len(ThermalReport.recommendations) = 2

AllSettled(r) == r.diskUsage # <<>> /\ r.securityStatus # <<>>

\* a step in which an invocation returns a computed Report or the cache is
\* written
ReturnsOrWritesCache ==
    \/ alertCache' # alertCache
    \/ cacheTimestamp' # cacheTimestamp
    \/ BagCardinality(calls') < BagCardinality(calls)
    \/ returned' # returned /\ ~returned'[1].cached

\* an invocation that read Date.now() = now is suspended at the await
SuspendedSince(now) == \E r \in BagToSet(calls) : Awaiting(r) /\ r.now = now

\* C26: when every collector of an invocation of getHealthAlerts settles,
\* the invocation returns: the invocations that started at any one time are
\* eventually suspended no more.  A Report is computed and returned and the cache is written only in
\* a step of an invocation all of whose collectors have settled, so an
\* invocation one of whose collectors never settles never returns and never
\* writes the cache.
C26_ReturnsIffCollectorsSettle ==
    /\ \A now \in Clocks : SuspendedSince(now) ~> ~SuspendedSince(now)
    /\ [][ReturnsOrWritesCache =>
             \E r \in BagToSet(calls) :
                 /\ AllSettled(r)
                 /\ calls' = calls (-) SetToBag({r})
                 /\ returned' # <<>> /\ ~returned'[1].cached
                 /\ alertCache' = <<returned'[1].resp[1].content[1].text>>
                 /\ cacheTimestamp' = r.now]_vars

\* an invocation has returned its Report and written the cache while
\* another one still waits for a collector
C26_Witness ==
    /\ returned # <<>>
    /\ ~returned[1].cached
    /\ alertCache # <<>>
    /\ \E r \in BagToSet(calls) : r \in Invocations /\ ~AllSettled(r) /\ r.now < clock

====
